---- MODULE Spec2Model ----
(***************************************************************************)
(* RutasDeBencina: road-network import (Infraestructura/                   *)
(* import_overpass_to_db.py), point snapping and route computation         *)
(* (db/data_access/{repositories,pgrouting,services}.py), stations along   *)
(* a route, fuel cost and promotion savings                                *)
(* (db/data_access/metadata_services.py), and the web handlers for route   *)
(* queries and data refreshes (web/web.py).                                *)
(*                                                                         *)
(* Coordinates are <<lon, lat>> on an integer grid.  One grid step is      *)
(* 300 m along a parallel and 400 m along a meridian (a latitude near      *)
(* 41 degrees south, inside DEFAULT_BBOX), so geography distances of the   *)
(* road vertices used here are whole metres.  Costs are seconds.           *)
(* Optional values (SQL NULL, Python None) are <<>>; a present value v is  *)
(* <<v>>.                                                                  *)
(*                                                                         *)
(* Database statements are atomic steps that read the committed tables:    *)
(* the connection pool of db/data_access/connection.py sets no isolation   *)
(* level, so each statement of a request takes its own snapshot (READ      *)
(* COMMITTED).  The importer runs with its default flags (truncate,        *)
(* refresh topology).                                                      *)
(***************************************************************************)
EXTENDS Integers, Sequences, FiniteSets, TLC

VARIABLES nodes, edges, txn, commits, pf, req, osm, nq, stations, fq, http,
          management_lock, refresh

vars == <<nodes, edges, txn, commits, pf, req, osm, nq, stations, fq, http, management_lock, refresh>>

\* ------------------------------------------------------------------ bounds
MaxWays == 3
MaxImports == 2
MaxSearchTicks == 2
Deadline == 1
MaxWorkers == 2

\* ------------------------------------------------------------ helper values
None == <<>>
Some(v) == <<v>>
IsSome(o) == o # <<>>
Val(o) == o[1]

Min2(a, b) == IF a <= b THEN a ELSE b

RECURSIVE SeqSum(_)
SeqSum(s) == IF s = <<>> THEN 0 ELSE s[1] + SeqSum(Tail(s))

RECURSIVE Reverse(_)
Reverse(s) == IF s = <<>> THEN <<>> ELSE Append(Reverse(Tail(s)), s[1])

RECURSIVE Flatten(_)
Flatten(ss) == IF ss = <<>> THEN <<>> ELSE ss[1] \o Flatten(Tail(ss))

\* --------------------------------------------------------------- geometry
Abs(x) == IF x < 0 THEN -x ELSE x

\* the_geom <-> point: planar distance in degrees (compared squared)
PlanarDist2(p, q) == (p[1] - q[1]) * (p[1] - q[1]) + (p[2] - q[2]) * (p[2] - q[2])

\* ST_Distance(a::geography, b::geography), squared, in m^2
Meters2(p, q) ==
    (300 * (p[1] - q[1])) * (300 * (p[1] - q[1]))
  + (400 * (p[2] - q[2])) * (400 * (p[2] - q[2]))

RECURSIVE ISqrtIn(_, _, _)
ISqrtIn(lo, hi, n) ==
    IF lo = hi THEN lo
    ELSE LET mid == (lo + hi + 1) \div 2
         IN IF mid * mid <= n THEN ISqrtIn(mid, hi, n) ELSE ISqrtIn(lo, mid - 1, n)

\* ST_Length(geom::geography) of a two-point segment, in metres
STLength(p, q) == ISqrtIn(0, 300 * Abs(p[1] - q[1]) + 400 * Abs(p[2] - q[2]), Meters2(p, q))

\* ----------------------------------------------------------------- import
default_speed == 60

Digits == {"0", "1", "2", "3", "4", "5", "6", "7", "8", "9"}

DigitVal(c) ==
    CASE c = "0" -> 0 [] c = "1" -> 1 [] c = "2" -> 2 [] c = "3" -> 3 [] c = "4" -> 4
      [] c = "5" -> 5 [] c = "6" -> 6 [] c = "7" -> 7 [] c = "8" -> 8 [] c = "9" -> 9

RECURSIVE DigitRun(_, _)
\* int() of the maximal run of digits that starts raw, continuing from acc
DigitRun(raw, acc) ==
    IF raw = <<>> \/ raw[1] \notin Digits THEN acc
    ELSE DigitRun(Tail(raw), 10 * acc + DigitVal(raw[1]))

RECURSIVE parse_maxspeed(_)
\* raw is the tag's text as a sequence of characters (<<>>: tag absent or empty)
parse_maxspeed(raw) ==
    IF raw = <<>> THEN None
    ELSE IF raw[1] \in Digits THEN Some(DigitRun(raw, 0))
    ELSE parse_maxspeed(Tail(raw))

DirectedTags == {"yes", "true", "1", "-1", "reverse"}
ReverseTags == {"-1", "reverse"}

\* cost written for a one-way edge's reverse direction
DirectedReverseCost == 1000000000

\* ST_Length / NULLIF(COALESCE(speed_kph, default) * 1000.0 / 3600.0, 0)
EdgeCost(length_m, speed_kph) ==
    LET kph == IF IsSome(speed_kph) THEN Val(speed_kph) ELSE default_speed
    IN IF kph = 0 THEN None ELSE Some((length_m * 36) \div (kph * 10))

\* the reverse cost with the one-way case left out
ReverseCost_Symmetric(directed, length_m, speed_kph) == EdgeCost(length_m, speed_kph)

ReverseCost(directed, length_m, speed_kph) ==
    IF directed THEN Some(DirectedReverseCost) ELSE EdgeCost(length_m, speed_kph)

\* every tag but "no" taken as one-way
Directed_UnlessNo(oneway_tag) == oneway_tag # "no"

\* line 226
Directed(oneway_tag) == oneway_tag \in DirectedTags

\* the road_edges rows one way contributes (lines 215-264) with the costs the
\* final UPDATE gives them (lines 305-318)
WayEdges(way) ==
    LET geom == way.geometry
        way_nodes_seq == way.nodes
    IN IF Len(geom) < 2 \/ Len(way_nodes_seq) < 2 THEN <<>>
       ELSE LET maxspeed == parse_maxspeed(way.maxspeed)
                directed == Directed(way.oneway)
                reverse_only == way.oneway \in ReverseTags
                coords == IF reverse_only THEN Reverse(geom) ELSE geom
                node_seq == IF reverse_only THEN Reverse(way_nodes_seq) ELSE way_nodes_seq
            IN [idx \in 1..(Len(node_seq) - 1) |->
                   LET p1 == coords[idx]
                       p2 == coords[idx + 1]
                       len == STLength(p1, p2)
                   IN [p1 |-> p1, p2 |-> p2, directed |-> directed,
                       speed_kph |-> maxspeed,
                       cost |-> EdgeCost(len, maxspeed),
                       reverse_cost |-> ReverseCost(directed, len, maxspeed)]]

\* osm.road_edges after insert_osm_data with truncate: ids are row positions
RoadEdges(ways) == Flatten([i \in 1..Len(ways) |-> WayEdges(ways[i])])

RECURSIVE AddPoints(_, _)
AddPoints(vs, pts) ==
    IF pts = <<>> THEN vs
    ELSE AddPoints(IF \E i \in 1..Len(vs) : vs[i] = pts[1] THEN vs ELSE Append(vs, pts[1]),
                   Tail(pts))

\* osm.refresh_road_topology: one vertex per distinct segment end point,
\* numbered in order of first use
TopologyVertices(rows) ==
    AddPoints(<<>>, Flatten([i \in 1..Len(rows) |-> <<rows[i].p1, rows[i].p2>>]))

VertexId(vs, p) == CHOOSE i \in 1..Len(vs) : vs[i] = p

\* osm.road_edges_pgr: id, source, target, cost, reverse_cost of each row
TopologyEdges(rows, vs) ==
    [i \in 1..Len(rows) |->
        [source |-> VertexId(vs, rows[i].p1), target |-> VertexId(vs, rows[i].p2),
         cost |-> rows[i].cost, reverse_cost |-> rows[i].reverse_cost,
         directed |-> rows[i].directed]]

insert_osm_data(ways) ==
    LET rows == RoadEdges(ways)
        vs == TopologyVertices(rows)
    IN [nodes |-> vs, edges |-> TopologyEdges(rows, vs)]

\* ------------------------------------------------------------ pgr_dijkstra
\* The directed graph pgRouting reads from the edge table: a row is usable
\* source -> target when cost >= 0 and target -> source when reverse_cost >= 0.
Arcs(E) ==
    {[edge |-> i, from |-> E[i].source, to |-> E[i].target, w |-> Val(E[i].cost),
      rev |-> FALSE] :
        i \in {j \in 1..Len(E) : IsSome(E[j].cost) /\ Val(E[j].cost) >= 0}}
    \cup
    {[edge |-> i, from |-> E[i].target, to |-> E[i].source, w |-> Val(E[i].reverse_cost),
      rev |-> TRUE] :
        i \in {j \in 1..Len(E) : IsSome(E[j].reverse_cost) /\ Val(E[j].reverse_cost) >= 0}}

GraphVertices(E) == {E[i].source : i \in 1..Len(E)} \cup {E[i].target : i \in 1..Len(E)}

\* the cheapest arc of A (lowest edge id first among equals, forward before reverse)
BestArc(A) ==
    CHOOSE a \in A : \A b \in A :
        \/ a.w < b.w
        \/ a.w = b.w /\ a.edge < b.edge
        \/ a.w = b.w /\ a.edge = b.edge /\ (~a.rev \/ b.rev)

RECURSIVE DijkstraRun_FirstReached(_, _, _, _, _)
\* a search that never lowers the distance of a vertex it has already reached
DijkstraRun_FirstReached(arcs, V, dist, pred, settled) ==
    LET open == {v \in V \ settled : IsSome(dist[v])}
    IN IF open = {} THEN [dist |-> dist, pred |-> pred]
       ELSE LET u == CHOOSE v \in open : \A x \in open :
                         Val(dist[v]) < Val(dist[x]) \/ (Val(dist[v]) = Val(dist[x]) /\ v <= x)
                done == settled \cup {u}
                out == {a \in arcs : a.from = u /\ a.to \notin done}
                better == {v \in V \ done : (\E a \in out : a.to = v) /\ ~IsSome(dist[v])}
                ndist == [v \in V |-> IF v \in better
                                      THEN Some(Val(dist[u]) + BestArc({a \in out : a.to = v}).w)
                                      ELSE dist[v]]
                npred == [v \in V |-> IF v \in better
                                      THEN Some(BestArc({a \in out : a.to = v}))
                                      ELSE pred[v]]
            IN DijkstraRun_FirstReached(arcs, V, ndist, npred, done)

RECURSIVE DijkstraRun(_, _, _, _, _)
\* dist and pred are functions on V; dist[v] = <<>> while v is unreached
DijkstraRun(arcs, V, dist, pred, settled) ==
    LET open == {v \in V \ settled : IsSome(dist[v])}
    IN IF open = {} THEN [dist |-> dist, pred |-> pred]
       ELSE LET u == CHOOSE v \in open : \A x \in open :
                         Val(dist[v]) < Val(dist[x]) \/ (Val(dist[v]) = Val(dist[x]) /\ v <= x)
                done == settled \cup {u}
                out == {a \in arcs : a.from = u /\ a.to \notin done}
                better == {v \in V \ done :
                             /\ \E a \in out : a.to = v
                             /\ \/ ~IsSome(dist[v])
                                \/ Val(dist[u]) + BestArc({a \in out : a.to = v}).w < Val(dist[v])}
                ndist == [v \in V |-> IF v \in better
                                      THEN Some(Val(dist[u]) + BestArc({a \in out : a.to = v}).w)
                                      ELSE dist[v]]
                npred == [v \in V |-> IF v \in better
                                      THEN Some(BestArc({a \in out : a.to = v}))
                                      ELSE pred[v]]
            IN DijkstraRun(arcs, V, ndist, npred, done)

Dijkstra(arcs, V, s) ==
    DijkstraRun(arcs, V, [v \in V |-> IF v = s THEN Some(0) ELSE None], [v \in V |-> None], {})

RECURSIVE PathArcs(_, _, _)
PathArcs(pred, s, t) ==
    IF t = s THEN <<>> ELSE Append(PathArcs(pred, s, Val(pred[t]).from), Val(pred[t]))

\* the result rows of pgr_dijkstra(edges_sql, start, end, directed := true): one row per
\* vertex of the path, the last with edge -1 and cost 0; no row when start = end, when a
\* vertex is not in the graph, or when end cannot be reached
pgr_dijkstra(E, start, end) ==
    LET V == GraphVertices(E)
    IN IF start = end \/ start \notin V \/ end \notin V THEN <<>>
       ELSE LET r == Dijkstra(Arcs(E), V, start)
            IN IF ~IsSome(r.dist[end]) THEN <<>>
               ELSE LET path == PathArcs(r.pred, start, end)
                        k == Len(path)
                    IN [i \in 1..(k + 1) |->
                          [seq |-> i, path_seq |-> i,
                           node |-> IF i <= k THEN path[i].from ELSE end,
                           edge |-> IF i <= k THEN path[i].edge ELSE -1,
                           cost |-> IF i <= k THEN path[i].w ELSE 0,
                           agg_cost |-> SeqSum([j \in 1..(i - 1) |-> path[j].w])]]

\* ------------------------------------------------------------ path finder
\* shortest_path reads five columns of each row into RouteSegment; the row's vertex is
\* not among them.
\* RouteSegment(seq, path_id, edge_id, cost, agg_cost) for each result row
shortest_path(E, start_vertex, end_vertex) ==
    LET rows == pgr_dijkstra(E, start_vertex, end_vertex)
    IN [i \in 1..Len(rows) |->
          [seq |-> rows[i].seq, path_id |-> rows[i].path_seq, edge_id |-> rows[i].edge,
           cost |-> rows[i].cost, agg_cost |-> rows[i].agg_cost]]

\* the total read from the last row's cost column instead of its agg_cost
total_cost_LastCost(segments) == IF segments # <<>> THEN segments[Len(segments)].cost ELSE 0

\* Route.total_cost
total_cost(segments) == IF segments # <<>> THEN segments[Len(segments)].agg_cost ELSE 0

compute_route(E, start_vertex, end_vertex) ==
    [segments |-> shortest_path(E, start_vertex, end_vertex)]


\* ------------------------------------------------------------------ inputs
\* road vertices: A, B (400 m north of A), C (300 m east of B, 500 m from A)
VertexPts == {<<0, 0>>, <<0, 1>>, <<1, 1>>}

WayGeometryList == << <<<<0, 0>>, <<0, 1>>>>, <<<<0, 1>>, <<1, 1>>>>, <<<<0, 0>>, <<1, 1>>>>,
                      <<<<0, 0>>, <<0, 0>>>> >>

WayGeometries == {WayGeometryList[i] : i \in 1..Len(WayGeometryList)}

OnewayTagList == <<"no", "yes", "-1">>

OnewayTags == {OnewayTagList[i] : i \in 1..Len(OnewayTagList)}

MaxspeedTagList == << <<>>, <<"3", "6">> >>

MaxspeedTags == {MaxspeedTagList[i] : i \in 1..Len(MaxspeedTagList)}

Ways == [geometry : WayGeometries, nodes : {<<1, 2>>}, oneway : OnewayTags,
         maxspeed : MaxspeedTags]

IndexIn(list, x) == CHOOSE i \in 1..Len(list) : list[i] = x

\* the position of a way in one fixed listing of Ways
WayRank(way) ==
    (IndexIn(WayGeometryList, way.geometry) * Len(OnewayTagList)
       + IndexIn(OnewayTagList, way.oneway)) * Len(MaxspeedTagList)
    + IndexIn(MaxspeedTagList, way.maxspeed)

\* The imported files: up to MaxWays ways.  The order of the ways in a file decides
\* only which ids the rows and vertices get, so one order per multiset is taken.
WaySeqs ==
    {ws \in UNION {[1..n -> Ways] : n \in 0..MaxWays} :
        \A i \in 1..(Len(ws) - 1) : WayRank(ws[i]) <= WayRank(ws[i + 1])}

VertexIds == 1..3

IdleTxn == [pc |-> "idle", nodes |-> <<>>, edges |-> <<>>]
IdlePf == [pc |-> "idle", start |-> 0, end |-> 0, segments |-> <<>>]
IdleReq == [pc |-> "idle"]
IdleNq == [pc |-> "idle"]
IdleFq == [pc |-> "idle"]
IdleHttp == [pc |-> "idle"]
Workers == 1..MaxWorkers
IdleRefresh == [w \in Workers |-> [pc |-> "idle"]]

\* --------------------------------------------- path finder on built graphs
InitPF ==
    /\ nodes = <<>>
    /\ edges = <<>>
    /\ txn = IdleTxn
    /\ commits = 0
    /\ pf = IdlePf
    /\ req = IdleReq
    /\ osm = <<>>
    /\ nq = IdleNq
    /\ stations = <<>>
    /\ fq = IdleFq
    /\ http = IdleHttp
    /\ management_lock = FALSE
    /\ refresh = IdleRefresh

\* main(): insert_osm_data and commit, with no reader in between
PFImport ==
    /\ commits = 0
    /\ \E ways \in WaySeqs :
          LET built == insert_osm_data(ways)
          IN /\ nodes' = built.nodes
             /\ edges' = built.edges
    /\ commits' = 1
    /\ UNCHANGED <<txn, pf, req, osm, nq, stations, fq, http, management_lock, refresh>>

PFCompute ==
    /\ commits = 1
    /\ pf.pc = "idle"
    /\ \E s \in VertexIds, e \in VertexIds :
          pf' = [pc |-> "done", start |-> s, end |-> e,
                 segments |-> compute_route(edges, s, e).segments]
    /\ UNCHANGED <<nodes, edges, txn, commits, req, osm, nq, stations, fq, http, management_lock, refresh>>

NextPF == PFImport \/ PFCompute

SpecPF == InitPF /\ [][NextPF]_vars


\* ------------------------------------------------- reading a returned route
RECURSIVE Traversal(_, _, _)
\* the edges a segment list traverses when followed from vertex cur: for each, the
\* vertex left, the vertex entered and whether the row is entered at its target
Traversal(E, cur, segments) ==
    IF segments = <<>> \/ segments[1].edge_id = -1 THEN <<>>
    ELSE LET e == segments[1].edge_id
             fwd == E[e].source = cur
             nxt == IF fwd THEN E[e].target ELSE E[e].source
         IN <<[edge |-> e, from |-> cur, to |-> nxt,
               joined |-> (E[e].source = cur \/ E[e].target = cur),
               backward |-> (~fwd /\ E[e].source # E[e].target),
               cost |-> IF fwd THEN E[e].cost ELSE E[e].reverse_cost]>>
              \o Traversal(E, nxt, Tail(segments))

\* the arcs a driver may take: every row forwards, a two-way row also backwards
LegalArcs(E) ==
    {a \in Arcs(E) : ~a.rev \/ ~E[a.edge].directed}

RECURSIVE RefDist(_, _, _, _)
\* least cost of a walk of at most n arcs of A from s to t (<<>>: none)
RefDist(A, s, t, n) ==
    IF n = 0 THEN (IF s = t THEN Some(0) ELSE None)
    ELSE LET shorter == RefDist(A, s, t, n - 1)
             via == {Val(RefDist(A, s, a.from, n - 1)) + a.w :
                        a \in {b \in A : b.to = t /\ IsSome(RefDist(A, s, b.from, n - 1))}}
             all == via \cup (IF IsSome(shorter) THEN {Val(shorter)} ELSE {})
         IN IF all = {} THEN None ELSE Some(CHOOSE c \in all : \A d \in all : c <= d)

\* least cost over the directed paths from s to t
LeastDirectedCost(E, s, t) == RefDist(LegalArcs(E), s, t, Cardinality(GraphVertices(E)))

CostsKnown(E) ==
    \A i \in 1..Len(E) : /\ IsSome(E[i].cost) /\ Val(E[i].cost) >= 0
                         /\ IsSome(E[i].reverse_cost) /\ Val(E[i].reverse_cost) >= 0

PfDone == pf.pc = "done"
PfSteps == Traversal(edges, pf.start, pf.segments)
InGraph(v) == v \in GraphVertices(edges)

\* Scenario A as the importer builds it: one-way A -> B, two-way B <-> C
ScenarioA ==
    << [geometry |-> <<<<0, 0>>, <<0, 1>>>>, nodes |-> <<1, 2>>, oneway |-> "yes",
        maxspeed |-> <<>>],
       [geometry |-> <<<<0, 1>>, <<1, 1>>>>, nodes |-> <<1, 2>>, oneway |-> "no",
        maxspeed |-> <<>>] >>

IsScenarioA == nodes = insert_osm_data(ScenarioA).nodes /\ edges = insert_osm_data(ScenarioA).edges

\* C1 (as stated): a returned path never takes a one-way edge against its direction; a
\* vertex reachable only against a one-way edge gives no path; in Scenario A the path
\* V1 -> V3 is [V1->V2, V2->V3] with the sum of both costs and V3 -> V1 gives no path.
C1_OneWayRespected ==
    PfDone =>
      /\ \A i \in 1..Len(PfSteps) : ~(edges[PfSteps[i].edge].directed /\ PfSteps[i].backward)
      /\ (InGraph(pf.start) /\ InGraph(pf.end) /\ pf.start # pf.end
            /\ ~IsSome(LeastDirectedCost(edges, pf.start, pf.end)))
         => pf.segments = <<>>
      /\ (IsScenarioA /\ pf.start = 1 /\ pf.end = 3)
         => /\ [i \in 1..Len(PfSteps) |-> PfSteps[i].edge] = <<1, 2>>
            /\ total_cost(pf.segments) = Val(edges[1].cost) + Val(edges[2].cost)
      /\ (IsScenarioA /\ pf.start = 3 /\ pf.end = 1) => pf.segments = <<>>

snap_distance_m == 1000
fallback_snap_distances_m == <<2500, 5000>>

\* the fallback radii tried before the primary one
snap_candidates_FallbackFirst == fallback_snap_distances_m \o <<snap_distance_m>>

\* services.py line 75
snap_candidates == <<snap_distance_m>> \o fallback_snap_distances_m

\* ORDER BY the_geom <-> point LIMIT 1: a row at the least planar distance (any of
\* them when several are equally near)
NearestRows(N, p) ==
    {i \in 1..Len(N) : \A j \in 1..Len(N) : PlanarDist2(N[i], p) <= PlanarDist2(N[j], p)}

\* the values find_nearest_node may return on vertex table N
find_nearest_node(N, p, max_distance_m) ==
    IF N = <<>> THEN {None}
    ELSE {IF Meters2(N[i], p) > max_distance_m * max_distance_m
          THEN None
          ELSE Some([id |-> i, pt |-> N[i]]) : i \in NearestRows(N, p)}

\* ------------------------------------------------------------ route request
\* both failures reported with the end point's message
SnapFailure_AlwaysEnd(which) == "EndUnreachable"

\* the ValueError raised when a point cannot be snapped (lines 78-83)
SnapFailure(which) == IF which = "start" THEN "StartUnreachable" ELSE "EndUnreachable"

\* the same-vertex test left out
SameVertex_Never(start_node, end_node) == FALSE

\* lines 85-92
SameVertex(start_node, end_node) == start_node.id = end_node.id

DegenerateRoute(start_node) ==
    [coordinates |-> <<start_node.pt>>, total_cost |-> 0, segments |-> <<>>]

QueryPts == {<<0, 0>>, <<1, 1>>, <<0, -4>>, <<0, -10>>, <<0, -20>>}

\* the imports the request-level specification draws from: Scenario A; the single
\* one-way road B -> C; the two-way road B <-> C beside an isolated vertex A
OneWayBC ==
    << [geometry |-> <<<<0, 1>>, <<1, 1>>>>, nodes |-> <<1, 2>>, oneway |-> "yes",
        maxspeed |-> <<>>] >>

IsolatedA ==
    << [geometry |-> <<<<0, 1>>, <<1, 1>>>>, nodes |-> <<1, 2>>, oneway |-> "no",
        maxspeed |-> <<>>],
       [geometry |-> <<<<0, 0>>, <<0, 0>>>>, nodes |-> <<1, 2>>, oneway |-> "no",
        maxspeed |-> <<>>] >>

Imports == {ScenarioA, OneWayBC, IsolatedA}

NewReq(sp, ep) ==
    [pc |-> "snap_start", start |-> sp, end |-> ep, i |-> 1,
     start_node |-> None, end_node |-> None, logS |-> <<>>, logE |-> <<>>,
     searches |-> 0, seen |-> {}, search_ver |-> 0, pending |-> <<>>, elapsed |-> 0,
     outcome |-> "none", coordinates |-> <<>>, total_cost |-> 0, segments |-> <<>>]

Init ==
    /\ nodes = <<>>
    /\ edges = <<>>
    /\ txn = IdleTxn
    /\ commits = 0
    /\ pf = IdlePf
    /\ req = IdleReq
    /\ osm = <<>>
    /\ nq = IdleNq
    /\ stations = <<>>
    /\ fq = IdleFq
    /\ http = IdleHttp
    /\ management_lock = FALSE
    /\ refresh = IdleRefresh

\* main() lines 383-394: the transaction is open and insert_osm_data has run in it;
\* nothing of it is visible to other connections yet
ImportBegin ==
    /\ txn.pc = "idle"
    /\ commits < MaxImports
    /\ \E ways \in Imports :
          LET built == insert_osm_data(ways)
          IN txn' = [pc |-> "open", nodes |-> built.nodes, edges |-> built.edges]
    /\ UNCHANGED <<nodes, edges, commits, pf, req, osm, nq, stations, fq, http, management_lock, refresh>>

\* main() line 395: conn.commit()
ImportCommit ==
    /\ txn.pc = "open"
    /\ nodes' = txn.nodes
    /\ edges' = txn.edges
    /\ commits' = commits + 1
    /\ txn' = IdleTxn
    /\ UNCHANGED <<pf, req, osm, nq, stations, fq, http, management_lock, refresh>>

\* api_shortest_route calls compute_route_between_points(start, end)
Request ==
    /\ req.pc = "idle"
    /\ \E sp \in QueryPts, ep \in QueryPts : req' = NewReq(sp, ep)
    /\ UNCHANGED <<nodes, edges, txn, commits, pf, osm, nq, stations, fq, http, management_lock, refresh>>

\* one find_nearest_node statement of _snap_point for the start point (line 77) and,
\* when the loop ends, lines 78-79
SnapStart ==
    /\ req.pc = "snap_start"
    /\ \E node \in find_nearest_node(nodes, req.start, snap_candidates[req.i]) :
          LET log == Append(req.logS, [radius |-> snap_candidates[req.i], node |-> node,
                                           ver |-> commits])
              r == [req EXCEPT !.logS = log, !.seen = @ \cup {commits}]
          IN req' = IF IsSome(node)
                    THEN [r EXCEPT !.start_node = node, !.pc = "snap_end", !.i = 1]
                    ELSE IF req.i < Len(snap_candidates)
                    THEN [r EXCEPT !.i = @ + 1]
                    ELSE [r EXCEPT !.pc = "done", !.outcome = SnapFailure("start")]
    /\ UNCHANGED <<nodes, edges, txn, commits, pf, osm, nq, stations, fq, http, management_lock, refresh>>

\* one find_nearest_node statement for the end point (line 81) and, when the loop
\* ends, lines 82-92
SnapEnd ==
    /\ req.pc = "snap_end"
    /\ \E node \in find_nearest_node(nodes, req.end, snap_candidates[req.i]) :
          LET log == Append(req.logE, [radius |-> snap_candidates[req.i], node |-> node,
                                           ver |-> commits])
              r == [req EXCEPT !.logE = log, !.seen = @ \cup {commits}]
          IN req' = IF IsSome(node)
                    THEN IF SameVertex(Val(req.start_node), Val(node))
                         THEN LET route == DegenerateRoute(Val(req.start_node))
                              IN [r EXCEPT !.end_node = node, !.pc = "done",
                                           !.outcome = "Route",
                                           !.coordinates = route.coordinates,
                                           !.total_cost = route.total_cost,
                                           !.segments = route.segments]
                         ELSE [r EXCEPT !.end_node = node, !.pc = "search"]
                    ELSE IF req.i < Len(snap_candidates)
                    THEN [r EXCEPT !.i = @ + 1]
                    ELSE [r EXCEPT !.pc = "done", !.outcome = SnapFailure("end")]
    /\ UNCHANGED <<nodes, edges, txn, commits, pf, osm, nq, stations, fq, http, management_lock, refresh>>

\* line 94: the pgr_dijkstra statement is sent and reads the edge table
SearchBegin ==
    /\ req.pc = "search"
    /\ req' = [req EXCEPT !.pc = "searching", !.searches = @ + 1,
                          !.seen = @ \cup {commits}, !.search_ver = commits,
                          !.pending = compute_route(edges, Val(req.start_node).id,
                                                    Val(req.end_node).id).segments]
    /\ UNCHANGED <<nodes, edges, txn, commits, pf, osm, nq, stations, fq, http, management_lock, refresh>>

\* the statement is still running: shortest_path sets no timeout and
\* compute_route_between_points takes no deadline
SearchTick ==
    /\ req.pc = "searching"
    /\ req.elapsed < MaxSearchTicks
    /\ req' = [req EXCEPT !.elapsed = @ + 1]
    /\ UNCHANGED <<nodes, edges, txn, commits, pf, osm, nq, stations, fq, http, management_lock, refresh>>

\* the rows arrive (line 94); lines 95-98: no row raises ValueError, otherwise
\* segment.node_id is read, which RouteSegment does not have
SearchEnd ==
    /\ req.pc = "searching"
    /\ req' = IF req.pending = <<>>
              THEN [req EXCEPT !.pc = "done", !.outcome = "NoPathFound"]
              ELSE [req EXCEPT !.pc = "done", !.outcome = "AttributeError"]
    /\ UNCHANGED <<nodes, edges, txn, commits, pf, osm, nq, stations, fq, http, management_lock, refresh>>

Next ==
    \/ ImportBegin
    \/ ImportCommit
    \/ Request
    \/ SnapStart
    \/ SnapEnd
    \/ SearchBegin
    \/ SearchTick
    \/ SearchEnd

Spec == Init /\ [][Next]_vars


\* ------------------------------------------------- claims on route requests
ReqActive == req.pc # "idle"
ReqDone == req.pc = "done"

\* C3 (as stated): the vertex the start point snapped to, the vertex the end point
\* snapped to and the edge table the path search read all come from one and the same
\* committed graph: no commit of the importer lies between these statements.
C3_SingleSnapshot ==
    (ReqActive /\ req.searches = 1)
    => /\ req.logS[Len(req.logS)].ver = req.logE[Len(req.logE)].ver
       /\ req.logE[Len(req.logE)].ver = req.search_ver

\* C4 (as stated): when the path search ran on the graph that is still the committed
\* one and that graph has no directed path from the snapped start vertex to the snapped
\* end vertex, the request fails with NoPathFound and carries no route.
C4_NoPathFound ==
    (/\ ReqDone /\ req.searches = 1 /\ req.seen = {commits}
     /\ ~IsSome(LeastDirectedCost(edges, Val(req.start_node).id, Val(req.end_node).id)))
    => /\ req.outcome = "NoPathFound"
       /\ req.segments = <<>>
       /\ req.coordinates = <<>>

\* C5 (as stated): a path search never runs past the deadline, and a request whose
\* search outlived the deadline ends with Timeout.
C5_Deadline ==
    /\ (ReqActive /\ req.pc = "searching") => req.elapsed <= Deadline
    /\ (ReqDone /\ req.elapsed > Deadline) => req.outcome = "Timeout"

\* C8: when start and end snap to the same vertex the request returns a route made of
\* that vertex's coordinate alone, with cost 0 and no segment, and no path search was
\* sent; a path search is only ever sent for two different vertices.
C8_SameVertexDegenerate ==
    ReqActive =>
      /\ (ReqDone /\ IsSome(req.start_node) /\ IsSome(req.end_node)
            /\ Val(req.start_node).id = Val(req.end_node).id)
         => /\ req.outcome = "Route"
            /\ req.coordinates = <<Val(req.start_node).pt>>
            /\ req.total_cost = 0
            /\ req.segments = <<>>
            /\ req.searches = 0
      /\ req.searches > 0 => Val(req.start_node).id # Val(req.end_node).id

\* two different points were snapped to vertex A and the degenerate route came back
C8_Witness ==
    /\ ReqDone /\ req.start # req.end
    /\ IsSome(req.start_node) /\ IsSome(req.end_node)
    /\ Val(req.start_node).id = Val(req.end_node).id
    /\ req.outcome = "Route" /\ req.coordinates = <<<<0, 0>>>>

\* the radii in the order the claim gives: the primary radius, then the fallbacks
RadiiInOrder == <<snap_distance_m>> \o fallback_snap_distances_m

\* a snap log follows the radii in order, every query before its last found nothing
SnapLogOrdered(log) ==
    /\ Len(log) <= Len(RadiiInOrder)
    /\ \A k \in 1..Len(log) : log[k].radius = RadiiInOrder[k]
    /\ \A k \in 1..(Len(log) - 1) : log[k].node = None

SnapLogExhausted(log) ==
    /\ Len(log) = Len(RadiiInOrder)
    /\ \A k \in 1..Len(log) : log[k].node = None

\* C9: each point is queried with the radii in order; the first radius that yields a
\* vertex ends the loop and that vertex is the result; the point is reported
\* unreachable only after every radius was queried and none yielded a vertex.
C9_RadiiInOrder ==
    ReqActive =>
      /\ SnapLogOrdered(req.logS)
      /\ SnapLogOrdered(req.logE)
      /\ IsSome(req.start_node) <=>
            (req.logS # <<>> /\ req.logS[Len(req.logS)].node = req.start_node
               /\ IsSome(req.logS[Len(req.logS)].node))
      /\ IsSome(req.end_node) <=>
            (req.logE # <<>> /\ req.logE[Len(req.logE)].node = req.end_node
               /\ IsSome(req.logE[Len(req.logE)].node))
      /\ req.outcome = "StartUnreachable" => SnapLogExhausted(req.logS)
      /\ req.outcome = "EndUnreachable" => SnapLogExhausted(req.logE)
      /\ req.pc = "snap_start" => Len(req.logS) = req.i - 1
      /\ req.pc = "snap_end" => Len(req.logE) = req.i - 1

\* the start point was found at the second radius, the third was not queried for it,
\* and the end point was given up after all three radii
C9_Witness ==
    /\ ReqDone
    /\ Len(req.logS) = 2 /\ IsSome(req.start_node)
    /\ Len(req.logE) = 3 /\ req.outcome = "EndUnreachable"

\* C10: the end point is queried only once the start point is snapped; a start point
\* that cannot be snapped gives StartUnreachable whatever the end point; EndUnreachable
\* means the start was snapped and the end was not; neither sends a path search.
C10_StartBeforeEnd ==
    ReqActive =>
      /\ req.logE # <<>> => IsSome(req.start_node)
      /\ (ReqDone /\ ~IsSome(req.start_node)) => req.outcome = "StartUnreachable"
      /\ req.outcome = "StartUnreachable"
           => ~IsSome(req.start_node) /\ req.logE = <<>> /\ req.searches = 0
      /\ req.outcome = "EndUnreachable"
           => IsSome(req.start_node) /\ ~IsSome(req.end_node) /\ req.searches = 0

\* StartUnreachable for a request whose end point is out of reach of every radius too
C10_Witness ==
    /\ ReqDone /\ req.outcome = "StartUnreachable"
    /\ nodes # <<>>
    /\ \A k \in 1..Len(snap_candidates) :
          find_nearest_node(nodes, req.end, snap_candidates[k]) = {None}


\* ------------------------------------------------- nearest-vertex queries
\* a two-way road from A to the point 800 m north of it
LongRoad ==
    << [geometry |-> <<<<0, 0>>, <<0, 2>>>>, nodes |-> <<1, 2>>, oneway |-> "no",
        maxspeed |-> <<>>] >>

NNImports == {ScenarioA, LongRoad}

NNPts == {<<0, 0>>, <<0, 1>>, <<1, 1>>, <<0, 2>>, <<1, 0>>, <<-2, 2>>, <<0, -4>>}

NNRadii == {0, 350, 1000}

\* main(): insert_osm_data and commit, once
NNImport ==
    /\ commits = 0
    /\ \E ways \in NNImports :
          LET built == insert_osm_data(ways)
          IN /\ nodes' = built.nodes
             /\ edges' = built.edges
    /\ commits' = 1
    /\ UNCHANGED <<txn, pf, req, osm, nq, stations, fq, http, management_lock, refresh>>

\* find_nearest_node(conn, lon, lat, max_distance_m = radius)
NNQuery ==
    /\ nq.pc = "idle"
    /\ \E p \in NNPts, radius \in NNRadii :
          \E r \in find_nearest_node(nodes, p, radius) :
             nq' = [pc |-> "once", p |-> p, radius |-> radius, ver |-> commits,
                    first |-> r, second |-> None]
    /\ UNCHANGED <<nodes, edges, txn, commits, pf, req, osm, stations, fq, http, management_lock, refresh>>

\* the same call again
NNRepeat ==
    /\ nq.pc = "once"
    /\ \E r \in find_nearest_node(nodes, nq.p, nq.radius) :
          nq' = [nq EXCEPT !.pc = "twice", !.second = r]
    /\ UNCHANGED <<nodes, edges, txn, commits, pf, req, osm, stations, fq, http, management_lock, refresh>>

NextNN == NNImport \/ NNQuery \/ NNRepeat

SpecNN == Init /\ [][NextNN]_vars

\* the vertices of N within max_distance_m metres of p
WithinRadius(N, p, max_distance_m) ==
    {i \in 1..Len(N) : Meters2(N[i], p) <= max_distance_m * max_distance_m}

\* the vertex the claim names: least distance in metres, then least id
NearestWithinRadius(N, p, max_distance_m) ==
    LET W == WithinRadius(N, p, max_distance_m)
    IN CHOOSE i \in W : \A j \in W :
          \/ Meters2(N[i], p) < Meters2(N[j], p)
          \/ Meters2(N[i], p) = Meters2(N[j], p) /\ i <= j

NqAsked == nq.pc # "idle" /\ nq.ver = commits

\* C11 (as stated): the nearest-vertex query returns the vertex at the least distance
\* (in metres, the unit of the radius) among the vertices within the radius, the one
\* with the smallest id among equally distant ones, and returns nothing exactly when
\* no vertex lies within the radius.
C11_NearestWithinRadius ==
    NqAsked =>
      IF WithinRadius(nodes, nq.p, nq.radius) = {}
      THEN nq.first = None
      ELSE LET i == NearestWithinRadius(nodes, nq.p, nq.radius)
           IN nq.first = Some([id |-> i, pt |-> nodes[i]])

\* C12 (as stated): a query at a vertex's own position with radius 0 returns that
\* vertex; querying the position of a returned vertex with radius 0 returns it again;
\* and the same query asked twice of an unchanged vertex table returns the same result.
C12_SelfConsistentIdempotent ==
    NqAsked =>
      /\ (nq.radius = 0 /\ \E i \in 1..Len(nodes) : nodes[i] = nq.p)
         => nq.first = Some([id |-> VertexId(nodes, nq.p), pt |-> nq.p])
      /\ IsSome(nq.first)
         => find_nearest_node(nodes, Val(nq.first).pt, 0) = {nq.first}
      /\ nq.pc = "twice" => nq.second = nq.first

\* the coordinates of the vertices a segment list passes through from vertex start, in
\* traversal order, each once
PathCoordinates(N, E, start, segments) ==
    LET steps == Traversal(E, start, segments)
    IN <<N[start]>> \o [i \in 1..Len(steps) |-> N[steps[i].to]]

\* C13 (as stated): when the path search found a path between two distinct vertices
\* joined by a directed path (on the graph that is still the committed one), the
\* request returns a route whose
\* coordinate list is the coordinates of the path's vertices in traversal order: first
\* the start vertex, last the end vertex, every vertex between them once.
C13_CoordinatesFollowPath ==
    (/\ ReqDone /\ req.searches = 1 /\ req.pending # <<>> /\ req.seen = {commits}
     /\ IsSome(LeastDirectedCost(edges, Val(req.start_node).id, Val(req.end_node).id)))
    => /\ req.outcome = "Route"
       /\ req.coordinates
            = PathCoordinates(nodes, edges, Val(req.start_node).id, req.pending)
       /\ req.coordinates[1] = Val(req.start_node).pt
       /\ req.coordinates[Len(req.coordinates)] = Val(req.end_node).pt
       /\ \A k \in 1..(Len(req.coordinates) - 1) :
             req.coordinates[k] # req.coordinates[k + 1]

\* ------------------------------------------------------- imports, way by way
MaxImWays == 2

\* way geometries of one, two and three points
ImGeometryList == << <<<<0, 0>>>>, <<<<0, 0>>, <<0, 1>>>>, <<<<0, 0>>, <<0, 1>>, <<1, 1>>>> >>

\* oneway tags: absent or "no", "yes", "-1" and a value the importer does not list
ImOnewayTagList == <<"no", "yes", "-1", "reversible">>

\* maxspeed tags: absent, "36" and "0"
ImMaxspeedTagList == << <<>>, <<"3", "6">>, <<"0">> >>

\* the ways of an Overpass answer (out geom): as many node ids as geometry points
ImWays ==
    {[geometry |-> ImGeometryList[g], nodes |-> [i \in 1..Len(ImGeometryList[g]) |-> i],
      oneway |-> ImOnewayTagList[t], maxspeed |-> ImMaxspeedTagList[m]] :
        g \in 1..Len(ImGeometryList), t \in 1..Len(ImOnewayTagList),
        m \in 1..Len(ImMaxspeedTagList)}

ImWayRank(way) ==
    (IndexIn(ImGeometryList, way.geometry) * Len(ImOnewayTagList)
       + IndexIn(ImOnewayTagList, way.oneway)) * Len(ImMaxspeedTagList)
    + IndexIn(ImMaxspeedTagList, way.maxspeed)

\* the imported files: up to MaxImWays ways, one order per multiset
ImWaySeqs ==
    {ws \in UNION {[1..n -> ImWays] : n \in 0..MaxImWays} :
        \A i \in 1..(Len(ws) - 1) : ImWayRank(ws[i]) <= ImWayRank(ws[i + 1])}

\* main(): the elements of the file are handed to insert_osm_data and committed
ImImport ==
    /\ commits = 0
    /\ \E ways \in ImWaySeqs :
          LET built == insert_osm_data(ways)
          IN /\ osm' = ways
             /\ nodes' = built.nodes
             /\ edges' = built.edges
    /\ commits' = 1
    /\ UNCHANGED <<txn, pf, req, nq, stations, fq, http, management_lock, refresh>>

NextIm == ImImport \/ PFCompute

SpecIm == InitPF /\ [][NextIm]_vars

\* ------------------------------------------------------ claims on the import
Imported == commits = 1

\* the direction tags with a stated meaning: two-way, one-way, reverse-only
RecognisedTags == {"no"} \cup DirectedTags

HasTwoPoints(way) == Len(way.geometry) >= 2 /\ Len(way.nodes) >= 2

HasTwoPointsAndKnownTag(way) == HasTwoPoints(way) /\ way.oneway \in RecognisedTags

\* the segments of a way: each pair of consecutive points, in the order
\* the way is stored (last point first for a reverse-only way)
SegmentsOf(way) ==
    LET pts == IF way.oneway \in ReverseTags THEN Reverse(way.geometry) ELSE way.geometry
    IN [i \in 1..(Len(pts) - 1) |-> [p1 |-> pts[i], p2 |-> pts[i + 1], way |-> way]]

SegmentsOfAll(ways) == Flatten([k \in 1..Len(ways) |-> SegmentsOf(ways[k])])

\* the committed graph consists of exactly the segments of ways: one edge per segment
\* between the vertices at its two points, and no vertex anywhere else
BuiltFrom(ways) ==
    LET segs == SegmentsOfAll(ways)
    IN /\ Len(edges) = Len(segs)
       /\ \A i \in 1..Len(segs) :
             /\ nodes[edges[i].source] = segs[i].p1
             /\ nodes[edges[i].target] = segs[i].p2
       /\ {nodes[i] : i \in 1..Len(nodes)}
            = {segs[i].p1 : i \in 1..Len(segs)} \cup {segs[i].p2 : i \in 1..Len(segs)}
       /\ \A i, j \in 1..Len(nodes) : nodes[i] = nodes[j] => i = j

Directions(E, i) ==
    {IF a.rev THEN "backward" ELSE "forward" : a \in {b \in Arcs(E) : b.edge = i}}

\* C15 (as stated): every edge of a two-way way can be taken in both directions and its
\* reverse cost equals its forward cost; every edge of a reverse-only way is stored
\* from the later point to the earlier point of the way and can be taken in that
\* direction only, so no route leads from the way's first point to its last point.
C15_DirectionFlags ==
    Imported =>
      LET segs == SegmentsOfAll(SelectSeq(osm, HasTwoPoints))
      IN /\ \A i \in 1..Len(segs) :
              /\ segs[i].way.oneway = "no"
                 => /\ Directions(edges, i) = {"forward", "backward"}
                    /\ edges[i].reverse_cost = edges[i].cost
              /\ segs[i].way.oneway \in ReverseTags
                 => /\ \E k \in 1..(Len(segs[i].way.geometry) - 1) :
                          /\ nodes[edges[i].source] = segs[i].way.geometry[k + 1]
                          /\ nodes[edges[i].target] = segs[i].way.geometry[k]
                    /\ Directions(edges, i) = {"forward"}
         /\ (/\ PfDone /\ Len(osm) = 1 /\ HasTwoPoints(osm[1])
             /\ osm[1].oneway \in ReverseTags
             /\ pf.start \in 1..Len(nodes) /\ pf.end \in 1..Len(nodes)
             /\ nodes[pf.start] = osm[1].geometry[1]
             /\ nodes[pf.end] = osm[1].geometry[Len(osm[1].geometry)])
            => pf.segments = <<>>

\* C16 (as stated): after an import every edge has a defined forward cost >= 0 equal to
\* the segment's length divided by its speed (metres by km/h, in seconds: cost * kph
\* = length * 3.6), the speed being the way's parsed maxspeed when it has one and the
\* default speed otherwise; for every maxspeed that can be parsed, 0 included.
C16_CostIsLengthOverSpeed ==
    Imported =>
      LET segs == SegmentsOfAll(SelectSeq(osm, HasTwoPoints))
      IN \A i \in 1..Len(segs) :
            LET hint == parse_maxspeed(segs[i].way.maxspeed)
                kph == IF IsSome(hint) THEN Val(hint) ELSE default_speed
            IN /\ IsSome(edges[i].cost)
               /\ Val(edges[i].cost) >= 0
               /\ Val(edges[i].cost) * kph * 10 = STLength(segs[i].p1, segs[i].p2) * 36

\* -------------------------------------------------- stations along a route
MaxStations == 3

\* distance in metres from point p to the segment a-b (geography, whole metres)
SegmentDistance(p, a, b) ==
    LET len2 == Meters2(a, b)
        t == 90000 * (p[1] - a[1]) * (b[1] - a[1]) + 160000 * (p[2] - a[2]) * (b[2] - a[2])
        cross == 120000 * ((p[1] - a[1]) * (b[2] - a[2]) - (p[2] - a[2]) * (b[1] - a[1]))
    IN IF len2 = 0 \/ t <= 0 THEN STLength(p, a)
       ELSE IF t >= len2 THEN STLength(p, b)
       ELSE Abs(cross) \div STLength(a, b)

\* ST_Distance(station point, route line) for a line of at least two points
RouteDistance(p, coords) ==
    LET ds == {SegmentDistance(p, coords[i], coords[i + 1]) : i \in 1..(Len(coords) - 1)}
    IN CHOOSE d \in ds : \A e \in ds : d <= e

\* metadata.best_prices_on_route(line, buffer, fuel type, day): one row for each station
\* within buffer metres of the line, with its current price of the fuel type (NULL when
\* it has none) and its distance to the line
best_prices_on_route(S, coords, buffer_meters) ==
    LET inside == SelectSeq([i \in 1..Len(S) |-> i],
                            LAMBDA i : RouteDistance(S[i].pt, coords) <= buffer_meters)
    IN [k \in 1..Len(inside) |->
          [estacion_id |-> inside[k], pt |-> S[inside[k]].pt, precio |-> S[inside[k]].precio,
           distance_m |-> RouteDistance(S[inside[k]].pt, coords)]]

\* rows ordered by distance alone
OrderedBefore_DistanceOnly(a, b) == a.distance_m <= b.distance_m

\* ORDER BY precio NULLS LAST, distance_m: row a may stand before row b
OrderedBefore(a, b) ==
    \/ IsSome(a.precio) /\ ~IsSome(b.precio)
    \/ IsSome(a.precio) /\ IsSome(b.precio) /\ Val(a.precio) < Val(b.precio)
    \/ a.precio = b.precio /\ a.distance_m <= b.distance_m

\* the orders in which the database may return rows (rows equal in price and distance
\* come in any order)
Orderings(rows) ==
    LET n == Len(rows)
        perms == {f \in [1..n -> 1..n] : \A i, j \in 1..n : f[i] = f[j] => i = j}
    IN {[k \in 1..n |-> rows[f[k]]] :
          f \in {g \in perms : \A i, j \in 1..n : i < j => OrderedBefore(rows[g[i]], rows[g[j]])}}

\* the rows without a price left out
find_stations_on_route_PricedOnly(S, route_coords, buffer_meters, limit) ==
    IF Len(route_coords) < 2 THEN {<<>>}
    ELSE {[k \in 1..Min2(limit, Len(rows)) |->
             [estacion_id |-> rows[k].estacion_id, precio |-> rows[k].precio,
              distance_to_route_m |-> rows[k].distance_m, pt |-> rows[k].pt]] :
            rows \in Orderings(SelectSeq(
                        best_prices_on_route(S, route_coords, buffer_meters),
                        LAMBDA row : IsSome(row.precio)))}

\* the length test left out: a single coordinate is matched as a line from the point
\* to itself
find_stations_on_route_AnyLength(S, route_coords, buffer_meters, limit) ==
    IF route_coords = <<>> THEN {<<>>}
    ELSE LET line == IF Len(route_coords) = 1 THEN route_coords \o route_coords ELSE route_coords
         IN {[k \in 1..Min2(limit, Len(rows)) |->
                [estacion_id |-> rows[k].estacion_id, precio |-> rows[k].precio,
                 distance_to_route_m |-> rows[k].distance_m, pt |-> rows[k].pt]] :
               rows \in Orderings(best_prices_on_route(S, line, buffer_meters))}

\* the lists find_stations_on_route may return (StationOnRoute for each row)
find_stations_on_route(S, route_coords, buffer_meters, limit) ==
    IF Len(route_coords) < 2 THEN {<<>>}
    ELSE {[k \in 1..Min2(limit, Len(rows)) |->
             [estacion_id |-> rows[k].estacion_id, precio |-> rows[k].precio,
              distance_to_route_m |-> rows[k].distance_m, pt |-> rows[k].pt]] :
            rows \in Orderings(best_prices_on_route(S, route_coords, buffer_meters))}

\* station points: on the route, 1200 m from it, far away
StationPtList == <<<<0, 1>>, <<0, -3>>, <<20, 20>>>>

\* current prices of the requested fuel type: none, 0, 1000, 1200
StationPriceList == << <<>>, <<0>>, <<1000>>, <<1200>> >>

StationKinds ==
    {[pt |-> StationPtList[i], precio |-> StationPriceList[j]] :
        i \in 1..Len(StationPtList), j \in 1..Len(StationPriceList)}

StationRank(st) ==
    IndexIn(StationPtList, st.pt) * Len(StationPriceList) + IndexIn(StationPriceList, st.precio)

\* the station store: up to MaxStations stations, ids in order of insertion
StationStores ==
    {ss \in UNION {[1..n -> StationKinds] : n \in 0..MaxStations} :
        \A i \in 1..(Len(ss) - 1) : StationRank(ss[i]) <= StationRank(ss[i + 1])}

\* route coordinate lists: none, one point, the route (0,0) -> (0,2) -> (2,2)
RouteCoordLists == {<<>>, <<<<0, 0>>>>, <<<<0, 0>>, <<0, 2>>>>, <<<<0, 0>>, <<0, 2>>, <<2, 2>>>>}

BufferMeters == {1000, 2000}

Limits == {1, 2, 20}

\* the station and price import has run
LoadStations ==
    /\ stations = <<>>
    /\ fq.pc = "idle"
    /\ \E ss \in StationStores \ {<<>>} : stations' = ss
    /\ UNCHANGED <<nodes, edges, txn, commits, pf, req, osm, nq, fq, http, management_lock, refresh>>

\* find_stations_on_route(conn, route_coords, buffer_meters = ..., limit = ...)
FindStations ==
    /\ fq.pc = "idle"
    /\ \E route_coords \in RouteCoordLists, buffer_meters \in BufferMeters, limit \in Limits :
          \E result \in find_stations_on_route(stations, route_coords, buffer_meters, limit) :
             fq' = [pc |-> "stations", route_coords |-> route_coords,
                    buffer_meters |-> buffer_meters, limit |-> limit, result |-> result]
    /\ UNCHANGED <<nodes, edges, txn, commits, pf, req, osm, nq, stations, http, management_lock, refresh>>

\* distance_km / fuel_consumption_km_per_l, in millilitres
LitersNeeded(distance_km, fuel_consumption_km_per_l) ==
    (distance_km * 1000) \div fuel_consumption_km_per_l

\* the truth value Python gives an Optional[Decimal]: None and 0 are false
Truthy(precio) == IsSome(precio) /\ Val(precio) # 0

\* the results calculate_route_fuel_cost may return; estimated_fuel_cost is in
\* thousandths of a peso (price per litre times millilitres)
calculate_route_fuel_cost(S, route_coords, distance_km, fuel_consumption_km_per_l, buffer_meters) ==
    LET liters_needed == LitersNeeded(distance_km, fuel_consumption_km_per_l)
    IN {LET cheapest_station == IF nearby_stations # <<>> THEN Some(nearby_stations[1])
                                ELSE None
            estimated_cost ==
                IF IsSome(cheapest_station) /\ Truthy(Val(cheapest_station).precio)
                THEN Some(Val(Val(cheapest_station).precio) * liters_needed)
                ELSE None
        IN [liters_needed |-> liters_needed, cheapest_station |-> cheapest_station,
            estimated_fuel_cost |-> estimated_cost, nearby_stations |-> nearby_stations] :
          nearby_stations \in find_stations_on_route(S, route_coords, buffer_meters, 10)}

DistancesKm == {0, 120}

ConsumptionsKmPerL == {12, 15}

\* calculate_route_fuel_cost(conn, route_coords, distance_km, ...)
FuelCost ==
    /\ fq.pc = "idle"
    /\ \E route_coords \in RouteCoordLists, distance_km \in DistancesKm,
          fuel_consumption_km_per_l \in ConsumptionsKmPerL, buffer_meters \in BufferMeters :
          \E result \in calculate_route_fuel_cost(stations, route_coords, distance_km,
                                                  fuel_consumption_km_per_l, buffer_meters) :
             fq' = [pc |-> "cost", route_coords |-> route_coords,
                    distance_km |-> distance_km,
                    fuel_consumption_km_per_l |-> fuel_consumption_km_per_l,
                    buffer_meters |-> buffer_meters, result |-> result]
    /\ UNCHANGED <<nodes, edges, txn, commits, pf, req, osm, nq, stations, http, management_lock, refresh>>

Whitespace == {" "}

RECURSIVE SkipWhitespace(_)
SkipWhitespace(text) ==
    IF text # <<>> /\ text[1] \in Whitespace THEN SkipWhitespace(Tail(text)) ELSE text

\* the first run of digits of the text, with or without the sign before it
FirstDollarAmount_AnyNumber(promo_text) ==
    LET at == {i \in 1..Len(promo_text) : promo_text[i] \in Digits}
    IN IF at = {} THEN None
       ELSE LET first == CHOOSE i \in at : \A j \in at : i <= j
            IN Some(DigitRun(SubSeq(promo_text, first, Len(promo_text)), 0))

RECURSIVE FirstDollarAmount(_)
\* re.findall(r'\$\s*(\d+)', promo_text): the first match as a number, <<>> when
\* there is none; promo_text is a sequence of characters
FirstDollarAmount(promo_text) ==
    IF promo_text = <<>> THEN None
    ELSE LET rest == SkipWhitespace(Tail(promo_text))
         IN IF promo_text[1] = "$" /\ rest # <<>> /\ rest[1] \in Digits
            THEN Some(DigitRun(rest, 0))
            ELSE FirstDollarAmount(Tail(promo_text))

\* the promotion price without the floor at 0
PromoPrice_Unclamped(base_price, discount_per_liter) == base_price - discount_per_liter

\* lines 429-431
PromoPrice(base_price, discount_per_liter) ==
    IF base_price - discount_per_liter < 0 THEN 0 ELSE base_price - discount_per_liter

\* calculate_savings_with_promotion: <<>> for the early returns, otherwise the
\* FuelSavingsReport; promos is what get_promociones_estacion returns for the station
\* (the descuento text of each promotion, <<>> for a NULL text); amounts of money are
\* in thousandths of a peso
calculate_savings_with_promotion(S, route_distance_km, fuel_consumption_km_per_l, station_codigo, discount_per_liter, promos) ==
    IF station_codigo \notin 1..Len(S) THEN None
    ELSE IF ~Truthy(S[station_codigo].precio) THEN None
    ELSE IF promos = <<>> THEN None
    ELSE LET base_price == Val(S[station_codigo].precio)
             liters_needed == LitersNeeded(route_distance_km, fuel_consumption_km_per_l)
             base_total == base_price * liters_needed
             promo_text == IF IsSome(promos[1]) THEN Val(promos[1]) ELSE <<>>
             matches == FirstDollarAmount(promo_text)
             discount == IF IsSome(discount_per_liter) THEN Val(discount_per_liter)
                         ELSE IF IsSome(matches) THEN Val(matches) ELSE 0
             promo_price == PromoPrice(base_price, discount)
             promo_total == promo_price * liters_needed
         IN Some([liters_needed |-> liters_needed, base_price_per_liter |-> base_price,
                  base_total_cost |-> base_total, promo_discount_per_liter |-> discount,
                  promo_total_cost |-> promo_total,
                  total_savings |-> base_total - promo_total])

\* discount_per_liter arguments: none given, 150, more than any price
DiscountsPerLiter == {<<>>, <<150>>, <<2000>>}

\* promotions of a station: none; one reading "dcto $150"; one without an amount; one
\* whose descuento is NULL; one whose descuento is the empty text; one reading
\* "2 $ 3$5" (a number without the sign, then two amounts)
PromoLists ==
    {<<>>,
     << <<<<"d", "c", "t", "o", " ", "$", "1", "5", "0">>>> >>,
     << <<<<"s", "i", "n", " ", "t", "o", "p", "e">>>> >>,
     << <<>> >>,
     << << <<>> >> >>,
     << <<<<"2", " ", "$", " ", "3", "$", "5">>>> >>}

\* calculate_savings_with_promotion(conn, route_distance_km, ...)
Savings ==
    /\ fq.pc = "idle"
    /\ \E route_distance_km \in DistancesKm, fuel_consumption_km_per_l \in ConsumptionsKmPerL,
          station_codigo \in 1..MaxStations, discount_per_liter \in DiscountsPerLiter,
          promos \in PromoLists :
          fq' = [pc |-> "savings", route_distance_km |-> route_distance_km,
                 fuel_consumption_km_per_l |-> fuel_consumption_km_per_l,
                 station_codigo |-> station_codigo, discount_per_liter |-> discount_per_liter,
                 promos |-> promos,
                 result |-> calculate_savings_with_promotion(
                                stations, route_distance_km, fuel_consumption_km_per_l,
                                station_codigo, discount_per_liter, promos)]
    /\ UNCHANGED <<nodes, edges, txn, commits, pf, req, osm, nq, stations, http, management_lock, refresh>>

NextFuel == LoadStations \/ FindStations \/ FuelCost \/ Savings

SpecFuel == Init /\ [][NextFuel]_vars

\* ------------------------------------------------ claims on station matching
Matched == fq.pc = "stations" /\ Len(fq.route_coords) >= 2

\* the stations of the store within the buffer of the route
InBuffer == {i \in 1..Len(stations) :
               RouteDistance(stations[i].pt, fq.route_coords) <= fq.buffer_meters}

\* station a ranks strictly before station b: priced before unpriced, then the lower
\* price, then the lesser distance to the route
RanksBefore(a, b) ==
    LET da == RouteDistance(stations[a].pt, fq.route_coords)
        db == RouteDistance(stations[b].pt, fq.route_coords)
        pa == stations[a].precio
        pb == stations[b].precio
    IN \/ IsSome(pa) /\ ~IsSome(pb)
       \/ IsSome(pa) /\ IsSome(pb) /\ Val(pa) < Val(pb)
       \/ pa = pb /\ da < db

\* C17: the returned list has min(limit, number of candidates) entries, all different
\* candidates; no entry ranks strictly before an earlier entry (ascending price, unpriced
\* last, equal prices by ascending distance); no candidate left out ranks strictly before
\* a returned one; so a priced station always stands before an unpriced one.
C17_RankedByPrice ==
    Matched =>
      LET r == fq.result
          ids == [k \in 1..Len(r) |-> r[k].estacion_id]
      IN /\ Len(r) = Min2(fq.limit, Cardinality(InBuffer))
         /\ \A k \in 1..Len(r) : ids[k] \in InBuffer /\ r[k].precio = stations[ids[k]].precio
         /\ \A j, k \in 1..Len(r) : j < k => ids[j] # ids[k] /\ ~RanksBefore(ids[k], ids[j])
         /\ \A c \in InBuffer : \A k \in 1..Len(r) :
               (\A j \in 1..Len(r) : ids[j] # c) => ~RanksBefore(c, ids[k])
         /\ \A j, k \in 1..Len(r) : (IsSome(r[j].precio) /\ ~IsSome(r[k].precio)) => j < k

\* Scenario C: a priced station 1200 m from the route was returned before an unpriced
\* station on the route; and a limit cut a candidate off
C17_Witness ==
    /\ Matched /\ Len(fq.result) = 2 /\ Cardinality(InBuffer) = 3
    /\ fq.result[1].precio = Some(1000) /\ fq.result[1].distance_to_route_m = 1200
    /\ fq.result[2].precio = None /\ fq.result[2].distance_to_route_m = 0

Estimated == fq.pc = "cost"

\* the stations within the buffer of the route that have a price
PricedInBuffer ==
    IF Len(fq.route_coords) < 2 THEN {}
    ELSE {i \in InBuffer : IsSome(stations[i].precio)}

LeastPrice(ids) ==
    CHOOSE p \in {Val(stations[i].precio) : i \in ids} :
        \A i \in ids : p <= Val(stations[i].precio)

\* C19 (as stated): the estimator always returns a result; its estimated cost is null
\* exactly when no matched station has a price; otherwise it is the least price among
\* the matched stations times distance / consumption (compared in thousandths:
\* cost * consumption = price * distance * 1000).
C19_EstimateFromCheapest ==
    Estimated =>
      /\ ~IsSome(fq.result.estimated_fuel_cost) <=> PricedInBuffer = {}
      /\ PricedInBuffer # {}
         => /\ IsSome(fq.result.cheapest_station)
            /\ Val(fq.result.cheapest_station).precio = Some(LeastPrice(PricedInBuffer))
            /\ IsSome(fq.result.estimated_fuel_cost)
            /\ Val(fq.result.estimated_fuel_cost) * fq.fuel_consumption_km_per_l
                 = LeastPrice(PricedInBuffer) * fq.distance_km * 1000

Reported == fq.pc = "savings" /\ IsSome(fq.result)

\* C20: in every savings report the litres are distance / consumption, the discounted
\* price is max(0, base price - discount per litre), hence never negative, the base
\* cost is base price * litres, the discounted cost is discounted price * litres, the
\* savings are their difference and never exceed the base cost; a discount given by
\* the caller is the one used; base price 1200, discount 150 and 10 litres give base
\* cost 12000, discounted cost 10500 and savings 1500 (amounts in thousandths).
C20_SavingsFormula ==
    Reported =>
      LET r == Val(fq.result)
          base == Val(stations[fq.station_codigo].precio)
          d == r.promo_discount_per_liter
          discounted == IF base - d > 0 THEN base - d ELSE 0
      IN /\ r.base_price_per_liter = base
         /\ r.liters_needed * fq.fuel_consumption_km_per_l = fq.route_distance_km * 1000
         /\ IsSome(fq.discount_per_liter) => d = Val(fq.discount_per_liter)
         /\ discounted >= 0
         /\ r.base_total_cost = base * r.liters_needed
         /\ r.promo_total_cost = discounted * r.liters_needed
         /\ r.promo_total_cost >= 0
         /\ r.total_savings = r.base_total_cost - r.promo_total_cost
         /\ r.total_savings <= r.base_total_cost
         /\ (base = 1200 /\ d = 150 /\ r.liters_needed = 10000)
            => /\ r.base_total_cost = 12000000
               /\ r.promo_total_cost = 10500000
               /\ r.total_savings = 1500000

\* Scenario D, the discount read from the promotion text "dcto $150"
C20_Witness ==
    /\ Reported
    /\ fq.discount_per_liter = None
    /\ Val(fq.result).base_price_per_liter = 1200
    /\ Val(fq.result).promo_discount_per_liter = 150
    /\ Val(fq.result).liters_needed = 10000
    /\ Val(fq.result).total_savings = 1500000

\* the positions of a text where a currency amount starts: a "$", then any
\* whitespace, then a digit
AmountStarts(text) ==
    {i \in 1..Len(text) :
        /\ text[i] = "$"
        /\ \E j \in (i + 1)..Len(text) :
              /\ text[j] \in Digits
              /\ \A k \in (i + 1)..(j - 1) : text[k] \in Whitespace}

RECURSIVE Pow10(_)
Pow10(n) == IF n = 0 THEN 1 ELSE 10 * Pow10(n - 1)

\* the number written by the digits text[j..e]
NumberAt(text, j, e) == SeqSum([k \in 1..(e - j + 1) |-> DigitVal(text[j + k - 1]) * Pow10(e - j + 1 - k)])

\* the amount of the first currency token of a text, 0 when it has none
FirstAmountOrZero(text) ==
    IF AmountStarts(text) = {} THEN 0
    ELSE LET i == CHOOSE a \in AmountStarts(text) : \A b \in AmountStarts(text) : a <= b
             j == CHOOSE d \in (i + 1)..Len(text) :
                     text[d] \in Digits /\ \A k \in (i + 1)..(d - 1) : text[k] \notin Digits
             e == CHOOSE d \in j..Len(text) :
                     /\ \A k \in j..d : text[k] \in Digits
                     /\ d = Len(text) \/ text[d + 1] \notin Digits
         IN NumberAt(text, j, e)

\* a savings request without an explicit discount, for a known station with a price
\* and at least one promotion
SavingsFromText ==
    /\ fq.pc = "savings"
    /\ fq.discount_per_liter = None
    /\ fq.station_codigo \in 1..Len(stations)
    /\ IsSome(stations[fq.station_codigo].precio)
    /\ Val(stations[fq.station_codigo].precio) # 0
    /\ fq.promos # <<>>

\* the descuento text of the reference promotion, empty when it is NULL
ReferenceText == IF IsSome(fq.promos[1]) THEN Val(fq.promos[1]) ELSE <<>>

\* C21: without an explicit discount, the discount per litre of the report is the
\* amount of the first "$ digits" token of the reference promotion's descuento text,
\* and 0 when the text is NULL, empty or has no such token; a report is produced in
\* either case, and with discount 0 its discounted cost equals its base cost and its
\* savings are 0.
C21_DiscountFromText ==
    SavingsFromText =>
      /\ IsSome(fq.result)
      /\ Val(fq.result).promo_discount_per_liter = FirstAmountOrZero(ReferenceText)
      /\ AmountStarts(ReferenceText) = {}
           => /\ Val(fq.result).promo_discount_per_liter = 0
              /\ Val(fq.result).promo_total_cost = Val(fq.result).base_total_cost
              /\ Val(fq.result).total_savings = 0

\* the text "2 $ 3$5" gave discount 3 on a route that needs fuel
C21_Witness ==
    /\ SavingsFromText
    /\ Len(ReferenceText) = 7
    /\ Val(fq.result).promo_discount_per_liter = 3
    /\ Val(fq.result).total_savings > 0

\* ------------------------------------------------------- web: route queries
\* JSON values of a request body
JNum(n) == [t |-> "num", n |-> n]
JStr(s) == [t |-> "str", s |-> s]
JNull == [t |-> "null"]
JList == [t |-> "list"]
\* an object with optional members lat and lon
JPoint(lat, lon) == [t |-> "obj", lat |-> lat, lon |-> lon]
\* an object with optional members start and end
JBody(start, end) == [t |-> "body", start |-> start, end |-> end]

\* float(value): a number is itself, a text of digits is the number it writes; any
\* other value raises TypeError or ValueError (<<>>)
float(value) ==
    IF value.t = "num" THEN Some(value.n)
    ELSE IF value.t = "str" /\ value.s # <<>> /\ \A i \in 1..Len(value.s) : value.s[i] \in Digits
    THEN Some(DigitRun(value.s, 0))
    ELSE None

MustBeObject(key) == [key |-> key, text |-> "must be an object with \"lat\" and \"lon\" fields."]
MustBeNumeric(key) == [key |-> key, text |-> "must contain numeric \"lat\" and \"lon\" values."]

\* _parse_point_payload(payload, key) on a JSON object: the point <<lon, lat>>, or
\* the message of the ValueError it raises
parse_point_payload(payload, key) ==
    LET data == IF key = "start" THEN payload.start ELSE payload.end
    IN IF ~IsSome(data) \/ Val(data).t # "obj"
       THEN [ok |-> FALSE, error |-> MustBeObject(key)]
       ELSE IF ~IsSome(Val(data).lat) \/ ~IsSome(Val(data).lon)
       THEN [ok |-> FALSE, error |-> MustBeNumeric(key)]
       ELSE LET lat == float(Val(Val(data).lat))
                lon == float(Val(Val(data).lon))
            IN IF ~IsSome(lat) \/ ~IsSome(lon)
               THEN [ok |-> FALSE, error |-> MustBeNumeric(key)]
               ELSE [ok |-> TRUE, point |-> <<Val(lon), Val(lat)>>]

\* the points sent as numbers
WebPts == {<<0, 0>>, <<1, 1>>, <<0, -20>>}

\* the start or end member of a body: absent; a number; an object without lat; an
\* object whose lon is the text "x"; an object whose lat is null; an object with
\* lat "1" and lon "1" as texts; an object with numbers
PointFields ==
    {None,
     Some(JNum(5)),
     Some(JPoint(None, Some(JNum(0)))),
     Some(JPoint(Some(JNum(0)), Some(JStr(<<"x">>)))),
     Some(JPoint(Some(JNull), Some(JNum(0)))),
     Some(JPoint(Some(JStr(<<"1">>)), Some(JStr(<<"1">>))))}
    \cup {Some(JPoint(Some(JNum(p[2])), Some(JNum(p[1])))) : p \in WebPts}

\* request.get_json(silent=True): None for a body that is not JSON; else the JSON
\* value, here an array or an object
Payloads == {[t |-> "none"], JList} \cup {JBody(s, e) : s \in PointFields, e \in PointFields}

ExpectedJson == [key |-> "", text |-> "Expected JSON body with \"start\" and \"end\" points."]
InternalServerError == [key |-> "", text |-> "Internal Server Error"]
UnableToCompute == [key |-> "", text |-> "Unable to compute route at this time."]

Responded(payload, status, description) ==
    [pc |-> "responded", payload |-> payload, status |-> status, description |-> description]

\* api_shortest_route, lines 117-135: the body is read and both points are parsed;
\* payload.get on a value that is not an object raises AttributeError, which the
\* except clause of line 124 does not catch
api_shortest_route ==
    /\ http.pc = "idle"
    /\ req.pc = "idle"
    /\ \E payload \in Payloads :
          IF payload.t = "none"
          THEN http' = Responded(payload, 400, ExpectedJson) /\ req' = req
          ELSE IF payload.t # "body"
          THEN http' = Responded(payload, 500, InternalServerError) /\ req' = req
          ELSE LET start == parse_point_payload(payload, "start")
                   end == parse_point_payload(payload, "end")
               IN IF ~start.ok
                  THEN http' = Responded(payload, 400, start.error) /\ req' = req
                  ELSE IF ~end.ok
                  THEN http' = Responded(payload, 400, end.error) /\ req' = req
                  ELSE /\ http' = [pc |-> "computing", payload |-> payload]
                       /\ req' = NewReq(start.point, end.point)
    /\ UNCHANGED <<nodes, edges, txn, commits, pf, osm, nq, stations, fq, management_lock, refresh>>

\* the ValueErrors of compute_route_between_points and their messages
ValueErrors == {"StartUnreachable", "EndUnreachable", "NoPathFound", "EmptyRouteGeometry"}

ValueErrorMessage(outcome) ==
    [key |-> "",
     text |-> CASE outcome = "StartUnreachable" -> "Could not locate a road vertex near the start point."
                [] outcome = "EndUnreachable" -> "Could not locate a road vertex near the end point."
                [] outcome = "NoPathFound" -> "No path found between the selected vertices."
                [] outcome = "EmptyRouteGeometry" -> "Route segments resolved without coordinate data."]

\* _route_result_to_feature
route_result_to_feature(route) ==
    [coordinates |-> IF Len(route.coordinates) = 1
                     THEN route.coordinates \o route.coordinates ELSE route.coordinates,
     start_node |-> Val(route.start_node).id,
     end_node |-> Val(route.end_node).id,
     total_cost |-> route.total_cost,
     segment_count |-> Len(route.segments)]

\* api_shortest_route, lines 136-150: compute_route_between_points has returned or
\* raised
api_shortest_route_respond ==
    /\ http.pc = "computing"
    /\ req.pc = "done"
    /\ http' = IF req.outcome = "Route"
               THEN [pc |-> "responded", payload |-> http.payload, status |-> 200,
                     route |-> route_result_to_feature(req)]
               ELSE IF req.outcome \in ValueErrors
               THEN Responded(http.payload, 400, ValueErrorMessage(req.outcome))
               ELSE Responded(http.payload, 500, UnableToCompute)
    /\ UNCHANGED <<nodes, edges, txn, commits, pf, req, osm, nq, stations, fq, management_lock, refresh>>

NextWeb ==
    \/ ImportBegin
    \/ ImportCommit
    \/ api_shortest_route
    \/ SnapStart
    \/ SnapEnd
    \/ SearchBegin
    \/ SearchTick
    \/ SearchEnd
    \/ api_shortest_route_respond

SpecWeb == Init /\ [][NextWeb]_vars

\* a member of a body that is an object with a numeric lat and a numeric lon
WellFormedPoint(field) ==
    /\ IsSome(field)
    /\ Val(field).t = "obj"
    /\ IsSome(Val(field).lat) /\ IsSome(float(Val(Val(field).lat)))
    /\ IsSome(Val(field).lon) /\ IsSome(float(Val(Val(field).lon)))

\* the member of a body, absent when the body is not a JSON object
Member(payload, key) ==
    IF payload.t # "body" THEN None
    ELSE IF key = "start" THEN payload.start ELSE payload.end

HttpResponded == http.pc = "responded"

\* C22: a route query whose start or end is missing, is not an object or lacks a
\* numeric lat or lon is answered with status 400 and the InvalidInput message, which
\* names start when start is at fault and end otherwise, and no snapping or path
\* search statement has been issued for it.
C22_InvalidInputRejected ==
    (/\ http.pc # "idle"
     /\ ~(WellFormedPoint(Member(http.payload, "start"))
          /\ WellFormedPoint(Member(http.payload, "end"))))
    => /\ HttpResponded
       /\ req = IdleReq
       /\ http.status = 400
       /\ http.payload.t = "body"
            => http.description.key =
                 (IF WellFormedPoint(Member(http.payload, "start")) THEN "end" ELSE "start")

\* the edges a result of shortest_path traverses: its rows other than the closing
\* row, whose edge is -1
EdgesTraversed(segments) == Cardinality({i \in 1..Len(segments) : segments[i].edge_id # -1})

\* C24 (as stated): the response to a route query whose points snapped to one vertex
\* carries segment_count 0, and the response to a query whose points snapped to two
\* vertices joined by a directed path (on a graph unchanged during the request) is a
\* route whose segment_count is the number of edges of the path found.
C24_SegmentCount ==
    (HttpResponded /\ ReqDone /\ IsSome(req.start_node) /\ IsSome(req.end_node))
    => /\ Val(req.start_node).id = Val(req.end_node).id
            => http.status = 200 /\ http.route.segment_count = 0
       /\ (/\ req.searches = 1 /\ req.pending # <<>> /\ req.seen = {commits}
           /\ IsSome(LeastDirectedCost(edges, Val(req.start_node).id, Val(req.end_node).id)))
            => /\ http.status = 200
               /\ http.route.segment_count = EdgesTraversed(req.pending)

\* ------------------------------------------------------ web: data refreshes
\* _DATASET_ALIASES, the keys used here; any other key has no dataset
DATASET_ALIASES == [key \in {"cne", "estaciones", "promos", "promotions"} |-> IF key \in {"cne", "estaciones"} THEN "cne" ELSE "promotions"]

\* DATA_TASKS: the labels of the steps of each dataset, in their configured order
DATA_TASKS == [dataset \in {"cne", "promotions"} |-> IF dataset = "cne" THEN <<"extract_cne", "import_cne">> ELSE <<"extract_promos", "extract_promos_static", "import_promos">>]

\* _normalize_dataset
normalize_dataset(value) ==
    IF ~IsSome(value) THEN None
    ELSE IF Val(value) \in DOMAIN DATASET_ALIASES THEN Some(DATASET_ALIASES[Val(value)])
    ELSE None

\* a "steps" member that is not a list, and one that is a list of labels
StepsText == [t |-> "str"]
StepsList(labels) == [t |-> "list", labels |-> labels]

\* `requested_steps and ...`: an absent member and an empty list are false
StepsGiven(requested_steps) ==
    /\ IsSome(requested_steps)
    /\ Val(requested_steps).t = "list" => Val(requested_steps).labels # {}

RefreshPayload(dataset, steps, continue_on_error) ==
    [dataset |-> dataset, steps |-> steps, continue_on_error |-> continue_on_error]

\* the bodies of the refresh requests: no dataset; an unknown dataset; "steps" given
\* as a text; both steps of cne, stopping at or continuing after a failure; two of
\* the three steps of promotions; a filter that selects no step; an empty list
RefreshPayloads ==
    {RefreshPayload(None, None, FALSE),
     RefreshPayload(Some("osm"), None, FALSE),
     RefreshPayload(Some("estaciones"), Some(StepsText), FALSE),
     RefreshPayload(Some("estaciones"), None, FALSE),
     RefreshPayload(Some("cne"), None, TRUE),
     RefreshPayload(Some("promos"), Some(StepsList({"import_promos", "extract_promos"})), FALSE),
     RefreshPayload(Some("promotions"), Some(StepsList({"import_cne"})), FALSE),
     RefreshPayload(Some("cne"), Some(StepsList({})), FALSE)}

\* how a call of _run_management_script may end: the script exits with 0; it exits
\* with another code or does not exist; it times out; or an exception leaves the
\* function (script_path.exists() and the statements outside its try may raise)
ScriptEndings == {"ok", "failed", "timeout", "raised"}

\* result["success"]
Success(ending) == ending = "ok"

\* the non-blocking acquire always succeeding
LockFree_Always(lock) == TRUE

\* _management_lock.acquire(blocking=False) succeeds on a lock that is not held
LockFree(lock) == ~lock

\* api_admin_refresh, lines 401-420: the body is validated, then the lock is tried
api_admin_refresh(w) ==
    /\ refresh[w].pc = "idle"
    /\ \E payload \in RefreshPayloads :
          LET dataset == normalize_dataset(payload.dataset)
              rejected == [pc |-> "responded", payload |-> payload, tasks |-> <<>>, i |-> 1,
                           results |-> <<>>, overall_success |-> TRUE, raised |-> FALSE,
                           acquired |-> FALSE, released |-> FALSE, status |-> 400]
          IN IF ~IsSome(dataset)
             THEN refresh' = [refresh EXCEPT ![w] = rejected] /\ management_lock' = management_lock
             ELSE IF StepsGiven(payload.steps) /\ Val(payload.steps).t # "list"
             THEN refresh' = [refresh EXCEPT ![w] = rejected] /\ management_lock' = management_lock
             ELSE IF ~LockFree(management_lock)
             THEN /\ refresh' = [refresh EXCEPT ![w] = [rejected EXCEPT !.status = 409]]
                  /\ management_lock' = management_lock
             ELSE /\ management_lock' = TRUE
                  /\ refresh' = [refresh EXCEPT ![w] =
                        [rejected EXCEPT !.pc = IF DATA_TASKS[Val(dataset)] = <<>> THEN "finally" ELSE "running",
                                         !.tasks = DATA_TASKS[Val(dataset)],
                                         !.acquired = TRUE, !.status = 0]]
    /\ UNCHANGED <<nodes, edges, txn, commits, pf, req, osm, nq, stations, fq, http>>

\* the break of line 439 left out
StopsAfter_Never(success, continue_on_error) == FALSE

\* lines 436-439: the loop is left after a step that failed unless continue_on_error
StopsAfter(success, continue_on_error) == ~success /\ ~continue_on_error

\* one iteration of the loop of lines 423-439: the step is skipped by the filter, or
\* its script is run to its end
refresh_step(w) ==
    LET r == refresh[w]
        label == r.tasks[r.i]
        step_filter == r.payload.steps
        last == r.i = Len(r.tasks)
    IN /\ r.pc = "running"
       /\ IF StepsGiven(step_filter) /\ label \notin Val(step_filter).labels
          THEN refresh' = [refresh EXCEPT ![w] = [r EXCEPT !.i = @ + 1, !.pc = IF last THEN "finally" ELSE "running"]]
          ELSE \E ending \in ScriptEndings :
                 IF ending = "raised"
                 THEN refresh' = [refresh EXCEPT ![w] = [r EXCEPT !.raised = TRUE, !.pc = "finally"]]
                 ELSE LET step_result == [label |-> label, success |-> Success(ending), ending |-> ending]
                          stop == StopsAfter(Success(ending), r.payload.continue_on_error)
                      IN refresh' = [refresh EXCEPT ![w] =
                            [r EXCEPT !.results = Append(@, step_result),
                                      !.overall_success = @ /\ Success(ending),
                                      !.i = @ + 1,
                                      !.pc = IF stop \/ last THEN "finally" ELSE "running"]]
       /\ UNCHANGED <<nodes, edges, txn, commits, pf, req, osm, nq, stations, fq, http, management_lock>>

\* the release as a statement after the loop: skipped when an exception leaves it
HeldAfterLoop_NoFinally(raised) == raised

\* lines 422 and 440-441: try ... finally: the lock is released however the loop ends
HeldAfterLoop(raised) == FALSE

\* line 441: finally: _management_lock.release()
refresh_release(w) ==
    /\ refresh[w].pc = "finally"
    /\ management_lock' = HeldAfterLoop(refresh[w].raised)
    /\ refresh' = [refresh EXCEPT ![w] = [@ EXCEPT !.pc = "released", !.released = TRUE]]
    /\ UNCHANGED <<nodes, edges, txn, commits, pf, req, osm, nq, stations, fq, http>>

\* lines 443-450, or the 500 of an exception that left the handler
refresh_respond(w) ==
    /\ refresh[w].pc = "released"
    /\ refresh' = [refresh EXCEPT ![w] =
          [@ EXCEPT !.pc = "responded",
                    !.status = IF refresh[w].raised THEN 500
                               ELSE IF refresh[w].overall_success THEN 200 ELSE 500]]
    /\ UNCHANGED <<nodes, edges, txn, commits, pf, req, osm, nq, stations, fq, http, management_lock>>

NextAdmin ==
    \E w \in Workers :
        \/ api_admin_refresh(w)
        \/ refresh_step(w)
        \/ refresh_release(w)
        \/ refresh_respond(w)

SpecAdmin == Init /\ [][NextAdmin]_vars

\* the requests that are between acquiring the lock and releasing it
Executing == {w \in Workers : refresh[w].pc \in {"running", "finally"}}

\* a request answered with 409 ran no script and never had the lock
ConflictsRanNothing ==
    \A w \in Workers :
        (refresh[w].pc # "idle" /\ refresh[w].status = 409)
        => /\ refresh[w].pc = "responded"
           /\ refresh[w].results = <<>>
           /\ ~refresh[w].acquired

\* a request with a valid body is answered with 409, in the step in which it arrives,
\* exactly when the lock is held by a request that is executing; otherwise it takes
\* the lock in that step
NoWaiting ==
    \A w \in Workers :
        (refresh[w].pc = "idle" /\ refresh'[w].pc # "idle" /\ refresh'[w].status # 400)
        => IF management_lock
           THEN refresh'[w].status = 409 /\ Executing # {} /\ Executing' = Executing
           ELSE refresh'[w].acquired /\ management_lock'

\* C25: at every moment at most one refresh request is between its acquisition of the
\* management lock and its release, so at most one is running scripts; and a request
\* that arrives while another holds the lock does not wait: it is answered in that
\* same step with 409, having run no script and without the lock.
C25_MutualExclusion ==
    /\ [](Cardinality(Executing) <= 1 /\ ConflictsRanNothing)
    /\ [][NoWaiting]_vars

\* one request was turned away with 409 while another was running its scripts
C25_Witness ==
    \E w \in Workers, v \in Workers :
        /\ refresh[w].pc = "running" /\ refresh[w].results # <<>>
        /\ refresh[v].pc = "responded" /\ refresh[v].status = 409

AllFinished == \A w \in Workers : refresh[w].pc \in {"idle", "responded"}

\* C26: the management lock is held exactly while some request is between acquiring
\* and releasing it; every request that acquired it has released it by the time it
\* responds, whether all steps succeeded, a step failed or timed out, or an exception
\* was raised; a request answered with 400 or 409 neither acquired nor released it;
\* hence whenever all requests have finished the lock is free and the next request
\* with a valid body is admitted.
C26_LockReleased ==
    /\ management_lock <=> Executing # {}
    /\ \A w \in Workers :
          refresh[w].pc = "responded"
          => /\ refresh[w].acquired <=> refresh[w].released
             /\ refresh[w].status \in {400, 409} <=> ~refresh[w].acquired
    /\ AllFinished => LockFree(management_lock)

\* a request whose step raised an exception has responded, and a later request was
\* admitted and is running
C26_Witness ==
    \E w \in Workers, v \in Workers :
        /\ refresh[w].pc = "responded" /\ refresh[w].raised /\ refresh[w].released
        /\ refresh[v].pc = "running" /\ refresh[v].acquired

\* the labels of a dataset's steps that the filter of a body lets through, in order
Selected(r) ==
    SelectSeq(r.tasks, LAMBDA label : StepsGiven(r.payload.steps) => label \in Val(r.payload.steps).labels)

AllSucceeded(results) == \A k \in 1..Len(results) : results[k].success

\* C27: the steps a refresh has run are the selected steps of the dataset in their
\* configured order, from the first one on; unless an exception ended the loop, a
\* request without continue_on_error has run them up to and including the first that
\* failed and none after it, and a request with continue_on_error has run them all;
\* the response has status 200 and success true exactly when every step that was run
\* succeeded, and status 500 otherwise.
C27_StepsInOrder ==
    \A w \in Workers :
        (refresh[w].pc = "responded" /\ refresh[w].acquired)
        => LET r == refresh[w]
               n == Len(r.results)
           IN /\ n <= Len(Selected(r))
              /\ \A k \in 1..n : r.results[k].label = Selected(r)[k]
              /\ ~r.raised
                   => /\ r.payload.continue_on_error => n = Len(Selected(r))
                      /\ ~r.payload.continue_on_error
                           => /\ AllSucceeded(SubSeq(r.results, 1, n - 1))
                              /\ n < Len(Selected(r)) => ~r.results[n].success
              /\ r.status = 200 <=> (~r.raised /\ AllSucceeded(r.results))
              /\ r.overall_success <=> AllSucceeded(r.results)
              /\ r.status \in {200, 500}

\* extract_promos failed, so import_promos, also selected, was not run: status 500
C27_Witness ==
    \E w \in Workers :
        /\ refresh[w].pc = "responded"
        /\ refresh[w].status = 500
        /\ ~refresh[w].payload.continue_on_error
        /\ Len(refresh[w].results) = 1
        /\ refresh[w].results[1].label = "extract_promos"
        /\ Len(Selected(refresh[w])) = 2

\* ------------------------------------------------------ snapping with radii
RECURSIVE snap_point(_, _, _)
\* _snap_point(conn, lon, lat, distances_m): the values it may return on vertex table
\* N, one find_nearest_node call per radius until one returns a vertex
snap_point(N, p, distances_m) ==
    IF distances_m = <<>> THEN {None}
    ELSE LET found == find_nearest_node(N, p, distances_m[1])
         IN (found \ {None})
            \cup (IF None \in found THEN snap_point(N, p, Tail(distances_m)) ELSE {})

\* lists of radii: the configured one, its reverse, and shorter ones in both orders
RadiiLists ==
    {snap_candidates, Reverse(snap_candidates), <<350>>, <<1000>>, <<350, 1000>>,
     <<1000, 350>>, <<0, 350>>}

\* the points snapped: those of the nearest-vertex queries and of the route requests,
\* and one 985 m from A and 1000 m from C that is nearer to C in degrees
SnapPts == NNPts \cup QueryPts \cup {<<3, -1>>}

\* _snap_point(conn, lon, lat, distances_m = ...) on the committed vertex table
SnapPoint ==
    /\ nq.pc = "idle"
    /\ commits = 1
    /\ \E p \in SnapPts, distances_m \in RadiiLists :
          \E node \in snap_point(nodes, p, distances_m) :
             nq' = [pc |-> "snapped", p |-> p, distances_m |-> distances_m, node |-> node]
    /\ UNCHANGED <<nodes, edges, txn, commits, pf, req, osm, stations, fq, http, management_lock, refresh>>

NextSnap == NNImport \/ SnapPoint

SpecSnap == Init /\ [][NextSnap]_vars

NqSnapped == nq.pc = "snapped"

\* the largest radius of a list, squared
LargestRadius2(distances_m) ==
    LET d == CHOOSE a \in 1..Len(distances_m) :
                \A b \in 1..Len(distances_m) : distances_m[a] >= distances_m[b]
    IN distances_m[d] * distances_m[d]

\* C28 (as stated): a vertex returned by snapping is one at the least distance (in
\* metres, the unit of the radii) from the point among all vertices of the graph, and
\* snapping returns a vertex exactly when that least distance is at most the largest
\* radius of the list, in whatever order the radii are given.
C28_GloballyNearest ==
    NqSnapped =>
      /\ IsSome(nq.node)
           => \A j \in 1..Len(nodes) :
                 Meters2(nodes[Val(nq.node).id], nq.p) <= Meters2(nodes[j], nq.p)
      /\ IsSome(nq.node)
           <=> \E i \in 1..Len(nodes) : Meters2(nodes[i], nq.p) <= LargestRadius2(nq.distances_m)

\* the stations within buffer metres of a point
NearPoint(p, buffer_meters) ==
    {i \in 1..Len(stations) : Meters2(stations[i].pt, p) <= buffer_meters * buffer_meters}

\* C29: for a route of fewer than two coordinates the station matcher returns the
\* empty list whatever the station store holds, and the fuel cost estimate has no
\* nearby station, no cheapest station and a null estimated cost; so it is for the
\* single coordinate of a degenerate route even when priced stations lie within the
\* buffer of that point.
C29_ShortRouteNoStations ==
    /\ (fq.pc = "stations" /\ Len(fq.route_coords) < 2) => fq.result = <<>>
    /\ (fq.pc = "cost" /\ Len(fq.route_coords) < 2)
       => /\ fq.result.nearby_stations = <<>>
          /\ fq.result.cheapest_station = None
          /\ fq.result.estimated_fuel_cost = None

\* the estimate for the degenerate route at A, with a station selling at 1000 within
\* 1000 m of A
C29_Witness ==
    /\ fq.pc = "cost"
    /\ fq.route_coords = DegenerateRoute([id |-> 1, pt |-> <<0, 0>>]).coordinates
    /\ fq.buffer_meters = 1000
    /\ \E i \in NearPoint(<<0, 0>>, 1000) : stations[i].precio = Some(1000)
    /\ fq.result.estimated_fuel_cost = None

\* --------------------------------------------- the import as a transaction
\* the statements of insert_osm_data, in order: TRUNCATE (lines 166-168); the INSERTs
\* and the cost UPDATE (lines 170-318); osm.refresh_road_topology (lines 320-322)
ImportSteps == <<"truncate", "insert", "topology">>

\* osm.road_edges_pgr before the topology is refreshed: the rows have costs but
\* neither source nor target
InsertedEdges(ways) ==
    LET rows == RoadEdges(ways)
    IN [i \in 1..Len(rows) |->
          [source |-> None, target |-> None, cost |-> rows[i].cost,
           reverse_cost |-> rows[i].reverse_cost, directed |-> rows[i].directed]]

\* the vertex table and the edge view as the importing connection sees them after
\* the k-th statement, starting from the tables N and E
Working(N, E, ways, k) ==
    IF k = 0 THEN [nodes |-> N, edges |-> E]
    ELSE IF ImportSteps[k] = "truncate" THEN [nodes |-> N, edges |-> <<>>]
    ELSE IF ImportSteps[k] = "insert" THEN [nodes |-> N, edges |-> InsertedEdges(ways)]
    ELSE insert_osm_data(ways)

\* every statement committed as it is executed
Visible_Autocommit(committed, working, committing) == working

\* what other connections read: psycopg.connect opens the connection without
\* autocommit (line 383), so the committed tables until conn.commit() (line 395)
Visible(committed, working, committing) == IF committing THEN working ELSE committed

TxnImports == Imports \cup {LongRoad}

\* main() line 383: the connection is opened
TxnBegin ==
    /\ txn.pc \in {"idle", "failed"}
    /\ commits < MaxImports
    /\ \E ways \in TxnImports :
          txn' = [pc |-> "open", ways |-> ways, k |-> 0, nodes |-> nodes, edges |-> edges]
    /\ UNCHANGED <<nodes, edges, commits, pf, req, osm, nq, stations, fq, http, management_lock, refresh>>

\* the next statement of insert_osm_data succeeds
TxnStatement ==
    /\ txn.pc = "open"
    /\ txn.k < Len(ImportSteps)
    /\ LET w == Working(txn.nodes, txn.edges, txn.ways, txn.k + 1)
       IN /\ txn' = [txn EXCEPT !.k = @ + 1, !.nodes = w.nodes, !.edges = w.edges]
          /\ nodes' = Visible(nodes, w.nodes, FALSE)
          /\ edges' = Visible(edges, w.edges, FALSE)
    /\ UNCHANGED <<commits, pf, req, osm, nq, stations, fq, http, management_lock, refresh>>

\* the next statement, or the Python code before it, raises: the exception leaves
\* the with block of line 383, which rolls the transaction back
TxnFail ==
    /\ txn.pc = "open"
    /\ txn.k < Len(ImportSteps)
    /\ txn' = [pc |-> "failed", ways |-> txn.ways, k |-> txn.k, nodes |-> <<>>, edges |-> <<>>]
    /\ nodes' = Visible(nodes, txn.nodes, FALSE)
    /\ edges' = Visible(edges, txn.edges, FALSE)
    /\ UNCHANGED <<commits, pf, req, osm, nq, stations, fq, http, management_lock, refresh>>

\* main() line 395: conn.commit()
TxnCommit ==
    /\ txn.pc = "open"
    /\ txn.k = Len(ImportSteps)
    /\ nodes' = Visible(nodes, txn.nodes, TRUE)
    /\ edges' = Visible(edges, txn.edges, TRUE)
    /\ commits' = commits + 1
    /\ txn' = IdleTxn
    /\ UNCHANGED <<pf, req, osm, nq, stations, fq, http, management_lock, refresh>>

NextTxn == TxnBegin \/ TxnStatement \/ TxnFail \/ TxnCommit

SpecTxn == Init /\ [][NextTxn]_vars

\* C30: the graph that other connections read changes only in the step that commits
\* an import whose statements have all run, and then the vertex table and the edge
\* table become those of the complete import at once; a step in which the import
\* fails, at whichever statement, leaves both tables as they were.
C30_AllOrNothing ==
    [][/\ (nodes' # nodes \/ edges' # edges)
          => /\ txn.pc = "open" /\ txn.k = Len(ImportSteps)
             /\ txn'.pc = "idle"
             /\ commits' = commits + 1
             /\ [nodes |-> nodes', edges |-> edges'] = insert_osm_data(txn.ways)
       /\ txn'.pc = "failed"
          => nodes' = nodes /\ edges' = edges /\ commits' = commits]_vars

\* an import failed after it had truncated the tables and inserted its rows, and the
\* graph of the import before it is still the published one
C30_Witness ==
    /\ txn.pc = "failed"
    /\ txn.k = 2
    /\ commits = 1
    /\ [nodes |-> nodes, edges |-> edges] = insert_osm_data(ScenarioA)
    /\ txn.ways # ScenarioA


====
